---- MODULE Spec2Model ----
(***************************************************************************)
(* A model of the transaction-signing layer of zklink_sdk:                 *)
(*   - the musig signature entry points (common/src/crypto/mod.rs),        *)
(*   - ChangePubKey authorization and signing (interface/src/              *)
(*     sign_change_pubkey.rs),                                             *)
(*   - TxHash / H256 / scalar identifier conversions (types/src/           *)
(*     basic_types/tx_hash.rs, bindings/sdk/src/lib.rs),                   *)
(*   - Order and OrderMatching (types/src/tx_type/order_matching.rs).      *)
(*                                                                         *)
(* Every entry point is an action that records the call in `call` and its  *)
(* outcome in `ret`.  The curve is modelled by a Schnorr group: the        *)
(* subgroup of prime order FsOrder of the integers modulo GroupModulus,    *)
(* generated by SpendingKeyGenerator.  Hashes are polynomial hashes modulo *)
(* the group order.                                                        *)
(***************************************************************************)
EXTENDS Integers, Sequences, FiniteSets, TLC

VARIABLES
    input,    \* the private key and the message this run signs
    params,   \* per thread: which thread-local parameter sets are initialised
    call,     \* the last entry point called, with its arguments
    ret,      \* what that call returned
    signed,   \* the first sign_musig call of the run and its output
    again     \* whether sign_musig has been called more than once

vars == <<input, params, call, ret, signed, again>>

-----------------------------------------------------------------------------
(* Bounds of the model *)

\* private keys 0..MaxKey are tried (besides two slices that are no scalar)
MaxKey == 2

\* messages are byte strings of length 0..MaxMsgLen
MaxMsgLen == 1

\* the byte values messages are made of
ByteVals == {1, 255}

Threads == {1, 2}

-----------------------------------------------------------------------------
(* Byte strings *)

PACKED_POINT_SIZE == 32

PACKED_SIGNATURE_SIZE == 64

Zeros(n) == [i \in 1..n |-> 0]

\* the sub-slice bytes[from..to) of Rust, 0-based, half open
Slice(bytes, from, to) == SubSeq(bytes, from + 1, to)

\* 256^k for the byte positions a value below 2^31 occupies
Pow256(k) == CASE k = 0 -> 1 [] k = 1 -> 256 [] k = 2 -> 65536 [] k = 3 -> 16777216

\* the byte of weight 256^k of n
ByteAt(n, k) == IF k <= 3 THEN (n \div Pow256(k)) % 256 ELSE 0

\* little-endian fixed-width encoding
LeBytes(n, size) == [i \in 1..size |-> ByteAt(n, i - 1)]

\* big-endian fixed-width encoding (to_be_bytes)
BeBytes(n, size) == [i \in 1..size |-> ByteAt(n, size - i)]

\* the little-endian value of a byte string, saturated at 2^16 (every modulus
\* of the model is below it, so range checks see the true order)
LeValue(bytes) ==
    IF \E i \in 3..Len(bytes) : bytes[i] # 0 THEN 65536
    ELSE (IF Len(bytes) >= 1 THEN bytes[1] ELSE 0)
         + 256 * (IF Len(bytes) >= 2 THEN bytes[2] ELSE 0)

\* the big-endian value of a byte string, saturated at 2^16
BeValue(bytes) ==
    LET n == Len(bytes) IN
    IF \E i \in 1..(n - 2) : bytes[i] # 0 THEN 65536
    ELSE (IF n >= 1 THEN bytes[n] ELSE 0)
         + 256 * (IF n >= 2 THEN bytes[n - 1] ELSE 0)

RECURSIVE SeqsUpTo(_, _)
\* all sequences over S of length 0..n
SeqsUpTo(S, n) ==
    IF n = 0 THEN {<<>>}
    ELSE LET shorter == SeqsUpTo(S, n - 1)
         IN  shorter \cup {Append(s, b) : s \in {x \in shorter : Len(x) = n - 1}, b \in S}

Msgs == SeqsUpTo(ByteVals, MaxMsgLen)

-----------------------------------------------------------------------------
(* The curve: a group of prime order FsOrder *)

\* order of the scalar field Fs
FsOrder == 263

\* the group is the order-FsOrder subgroup of the units modulo GroupModulus
GroupModulus == 1579

\* FixedGenerators::SpendingKeyGenerator
SpendingKeyGenerator == 64

RECURSIVE PointPow(_, _)
\* scalar multiplication: the point `base` taken e times
PointPow(base, e) ==
    IF e = 0 THEN 1
    ELSE LET half == PointPow(base, e \div 2)
             sq   == (half * half) % GroupModulus
         IN  IF e % 2 = 1 THEN (sq * base) % GroupModulus ELSE sq

PointAdd(p1, p2) == (p1 * p2) % GroupModulus

\* the multiples of the generator, by scalar
GeneratorMul == [e \in 0..(FsOrder - 1) |-> PointPow(SpendingKeyGenerator, e)]

\* the points of the prime-order subgroup
CurvePoints == {GeneratorMul[e] : e \in 0..(FsOrder - 1)}

\* Point::read's on-curve check
OnCurve(v) == v \in CurvePoints

\* edwards::Point::write / PublicKey::write: the packed point
WritePoint(p) == LeBytes(p, PACKED_POINT_SIZE)

\* edwards::Point::read
ReadPoint(bytes) ==
    LET v == LeValue(bytes) IN
    IF Len(bytes) = PACKED_POINT_SIZE /\ OnCurve(v)
    THEN [ok |-> TRUE, point |-> v]
    ELSE [ok |-> FALSE, point |-> 0]

\* PublicKey::from_private
PublicKeyFromPrivate(sk) == GeneratorMul[sk]

\* privkey_from_slice: a 32-byte big-endian scalar below the field order
PrivkeyFromSlice(private_key) ==
    LET v == BeValue(private_key) IN
    IF Len(private_key) = 32 /\ v < FsOrder
    THEN [ok |-> TRUE, sk |-> v]
    ELSE [ok |-> FALSE, sk |-> 0]

RECURSIVE HashBasePow(_)
\* 257^n in the scalar field
HashBasePow(n) ==
    IF n = 0 THEN 1
    ELSE LET half == HashBasePow(n \div 2)
             sq   == (half * half) % FsOrder
         IN  IF n % 2 = 1 THEN (sq * 257) % FsOrder ELSE sq

RECURSIVE HashBytes(_, _, _)
\* the digest of the bytes lo..hi of msg: the polynomial in 257 whose
\* coefficients are the bytes plus one, the last byte the constant term
HashBytes(msg, lo, hi) ==
    IF lo > hi THEN 0
    ELSE IF lo = hi THEN (msg[lo] + 1) % FsOrder
    ELSE LET mid == (lo + hi) \div 2
         IN  (HashBytes(msg, lo, mid) * HashBasePow(hi - mid)
              + HashBytes(msg, mid + 1, hi)) % FsOrder

\* utils::rescue_hash_tx_msg: the digest of a message, a field element
RescueHashTxMsg(msg) == HashBytes(msg, 1, Len(msg))

\* Seed::deterministic_seed(private_key, hashed_msg)
DeterministicSeed(sk, hashed_msg) == (sk * 31 + hashed_msg * 17 + 1) % FsOrder

\* the challenge of the musig scheme: the hash of (public key, R, digest)
MusigChallenge(pk, r, hashed_msg) == (hashed_msg + 3 * pk + 5 * r) % FsOrder

\* PrivateKey::musig_rescue_sign
MusigRescueSign(sk, hashed_msg, seed) ==
    LET r == GeneratorMul[seed]
        c == MusigChallenge(PublicKeyFromPrivate(sk), r, hashed_msg)
    IN  [r |-> r, s |-> (seed + c * sk) % FsOrder]

\* PublicKey::verify_musig_rescue
VerifyMusigRescue(pk, hashed_msg, sig) ==
    LET c == MusigChallenge(pk, sig.r, hashed_msg)
    IN  GeneratorMul[sig.s] = PointAdd(sig.r, PointPow(pk, c))

-----------------------------------------------------------------------------
(* sign_musig and verify_musig *)

\* a seed that also depends on the calling thread
SignSeedPerThread(t, sk, hashed_msg) == (DeterministicSeed(sk, hashed_msg) + t) % FsOrder

\* the seed sign_musig hands to musig_rescue_sign
SignSeed(t, sk, hashed_msg) == DeterministicSeed(sk, hashed_msg)

\* sign_musig(private_key, msg) called on thread t
SignMusig(t, private_key, msg) ==
    LET parsed == PrivkeyFromSlice(private_key) IN
    IF ~parsed.ok THEN [ok |-> FALSE, err |-> "invalid private key", bytes |-> <<>>]
    ELSE LET public_key == PublicKeyFromPrivate(parsed.sk)
             hashed_msg == RescueHashTxMsg(msg)
             seed       == SignSeed(t, parsed.sk, hashed_msg)
             signature  == MusigRescueSign(parsed.sk, hashed_msg, seed)
         IN  [ok    |-> TRUE,
              err   |-> "",
              bytes |-> WritePoint(public_key) \o WritePoint(signature.r)
                        \o LeBytes(signature.s, 32)]

\* deserialize_signature with the two halves taken in the wrong order
DeserializeSignatureSwapped(bytes) ==
    LET s_bar == Slice(bytes, 0, PACKED_POINT_SIZE)
        r_bar == Slice(bytes, PACKED_POINT_SIZE, Len(bytes))
        r     == ReadPoint(r_bar)
        s     == LeValue(s_bar)
    IN  IF ~r.ok \/ s >= FsOrder
        THEN [ok |-> FALSE, r |-> 0, s |-> 0]
        ELSE [ok |-> TRUE, r |-> r.point, s |-> s]

\* deserialize_signature
DeserializeSignature(bytes) ==
    LET r_bar == Slice(bytes, 0, PACKED_POINT_SIZE)
        s_bar == Slice(bytes, PACKED_POINT_SIZE, Len(bytes))
        r     == ReadPoint(r_bar)
        s     == LeValue(s_bar)
    IN  IF ~r.ok \/ s >= FsOrder
        THEN [ok |-> FALSE, r |-> 0, s |-> 0]
        ELSE [ok |-> TRUE, r |-> r.point, s |-> s]

\* a length test that lets buffers longer than 96 bytes through
SignatureTooShort(signature) ==
    Len(signature) < PACKED_POINT_SIZE + PACKED_SIGNATURE_SIZE

\* the length test verify_musig starts with
SignatureLengthWrong(signature) ==
    Len(signature) # PACKED_POINT_SIZE + PACKED_SIGNATURE_SIZE

\* a digest that leaves the last byte of the message out
VerifyDigestTruncated(msg) ==
    IF msg = <<>> THEN RescueHashTxMsg(msg)
    ELSE RescueHashTxMsg(SubSeq(msg, 1, Len(msg) - 1))

\* the digest verify_musig checks the signature against
VerifyDigest(msg) == RescueHashTxMsg(msg)

NothingParsed == [pubkey |-> 0, r |-> 0, s |-> 0]

\* verify_musig(msg, signature): the result, the components whose read was
\* started, and the values parsed
VerifyMusig(msg, signature) ==
    IF SignatureLengthWrong(signature)
    THEN [ok |-> FALSE, err |-> "Signature length is not 96 bytes", value |-> FALSE,
          read |-> <<>>, parsed |-> NothingParsed]
    ELSE LET pubkey == ReadPoint(Slice(signature, 0, PACKED_POINT_SIZE)) IN
         IF ~pubkey.ok
         THEN [ok |-> FALSE, err |-> "couldn't read public key", value |-> FALSE,
               read |-> <<"pubkey">>, parsed |-> NothingParsed]
         ELSE LET sg == DeserializeSignature(
                            Slice(signature, PACKED_POINT_SIZE, Len(signature))) IN
              IF ~sg.ok
              THEN [ok |-> FALSE, err |-> "Failed to parse signature", value |-> FALSE,
                    read |-> <<"pubkey", "r", "s">>, parsed |-> NothingParsed]
              ELSE [ok |-> TRUE, err |-> "",
                    value |-> VerifyMusigRescue(pubkey.point, VerifyDigest(msg),
                                                [r |-> sg.r, s |-> sg.s]),
                    read |-> <<"pubkey", "r", "s">>,
                    parsed |-> [pubkey |-> pubkey.point, r |-> sg.r, s |-> sg.s]]

-----------------------------------------------------------------------------
(* The calls of the signature engine *)

NoSig == [ok |-> FALSE, private_key |-> <<>>, msg |-> <<>>, bytes |-> <<>>]

NoParams == [jubjub |-> FALSE, rescue |-> FALSE]

\* JUBJUB_PARAMS.with / RESCUE_PARAMS.with on thread t: the thread's own
\* instance is built on first use
WithJubjub(ps, t) == [ps EXCEPT ![t].jubjub = TRUE]

WithRescue(ps, t) == [ps EXCEPT ![t].rescue = TRUE]

\* the private-key slices tried: the scalars 0..MaxKey, the smallest value
\* that is no scalar, and a slice that is one byte short
PrivateKeys ==
    {BeBytes(k, 32) : k \in (0..MaxKey) \cup {FsOrder}} \cup {Zeros(31)}

\* msg with the byte at position i replaced by b
FlipByte(msg, i, b) == [msg EXCEPT ![i] = b]

\* the messages that differ from msg in exactly one byte
SingleByteFlips(msg) ==
    {FlipByte(msg, i, b) : i \in 1..Len(msg), b \in ByteVals} \ {msg}

\* buffers derived from a 96-byte signature: wrong lengths and damaged parts
Mangled(bytes) ==
    { Slice(bytes, 0, 95), Slice(bytes, 1, 96), bytes \o <<0>>,
      [bytes EXCEPT ![1] = (@ + 1) % 256],
      [bytes EXCEPT ![33] = (@ + 1) % 256],
      [bytes EXCEPT ![65] = (@ + 1) % 256],
      [bytes EXCEPT ![96] = 255],
      Slice(bytes, 0, 32) \o Slice(bytes, 64, 96) \o Slice(bytes, 32, 64) }

\* the (message, signature buffer) pairs verify_musig is called with: the
\* signature held in signed against every message, its damaged forms against
\* the signed message, and buffers of zeros
VerifyInputs ==
    {<<signed.msg, Zeros(n)>> : n \in {0, 95, 96, 97}}
    \cup (IF signed.ok
          THEN {<<m, signed.bytes>> : m \in Msgs}
               \cup {<<signed.msg, b>> : b \in Mangled(signed.bytes)}
          ELSE {})

\* zksync_crypto_init() on thread t
ZksyncCryptoInit(t) ==
    /\ params' = WithRescue(WithJubjub(params, t), t)
    /\ call' = [op |-> "zksync_crypto_init", thread |-> t]
    /\ ret' = [ok |-> TRUE]
    /\ UNCHANGED <<input, signed, again>>

\* sign_musig(private_key, msg) on thread t
SignMusigCall(t, private_key, msg) ==
    LET out == SignMusig(t, private_key, msg) IN
    /\ params' = IF out.ok THEN WithRescue(WithJubjub(params, t), t) ELSE params
    /\ call' = [op |-> "sign_musig", thread |-> t, private_key |-> private_key,
                msg |-> msg]
    /\ ret' = out
    /\ again' = (signed # NoSig)
    /\ signed' = IF signed # NoSig THEN signed
                 ELSE [ok |-> out.ok, private_key |-> private_key, msg |-> msg,
                       bytes |-> out.bytes]
    /\ UNCHANGED input

\* verify_musig(msg, signature) on thread t
VerifyMusigCall(t, msg, signature) ==
    LET out == VerifyMusig(msg, signature) IN
    /\ params' = IF out.ok THEN WithRescue(WithJubjub(params, t), t)
                 ELSE IF out.read # <<>> THEN WithJubjub(params, t)
                 ELSE params
    /\ call' = [op |-> "verify_musig", thread |-> t, msg |-> msg,
                signature |-> signature]
    /\ ret' = out
    /\ UNCHANGED <<input, signed, again>>

Init ==
    /\ input \in [private_key : PrivateKeys, msg : Msgs]
    /\ params = [t \in Threads |-> NoParams]
    /\ call = [op |-> "none"]
    /\ ret = [ok |-> TRUE]
    /\ signed = NoSig
    /\ again = FALSE

NextCrypto ==
    \/ \E t \in Threads : ZksyncCryptoInit(t)
    \/ \E t \in Threads : SignMusigCall(t, input.private_key, input.msg)
    \/ \E t \in Threads, vi \in VerifyInputs : VerifyMusigCall(t, vi[1], vi[2])

SpecCrypto == Init /\ [][NextCrypto]_vars

-----------------------------------------------------------------------------
(* Properties of the signature engine, checked under SpecCrypto *)

\* C3: verify_musig answers every signature buffer whose length is not 96
\* bytes with the length error, having started to read no component of it,
\* and never with a boolean.
C3_LengthError ==
    (call.op = "verify_musig" /\ Len(call.signature) # 96)
        => /\ ~ret.ok
           /\ ret.err = "Signature length is not 96 bytes"
           /\ ret.read = <<>>
           /\ ret.parsed = NothingParsed

\* C3 witness: a 97-byte buffer that starts with a valid signature was refused
C3_Witness ==
    /\ call.op = "verify_musig"
    /\ signed.ok
    /\ call.signature = signed.bytes \o <<0>>
    /\ ~ret.ok

\* the scalar a valid private-key slice stands for
SignedScalar == BeValue(signed.private_key)

\* a verify_musig call on the signature that sign_musig returned
VerifiesSigned ==
    /\ call.op = "verify_musig"
    /\ signed.ok
    /\ call.signature = signed.bytes

\* C4 as stated: for every private key that is a valid scalar, the signature
\* of a message verifies against that message, and verifies as false against
\* every message that differs from it in a single byte.
C4_RoundTripAnyKey ==
    VerifiesSigned
        => /\ call.msg = signed.msg => (ret.ok /\ ret.value)
           /\ call.msg \in SingleByteFlips(signed.msg) => (ret.ok /\ ~ret.value)

\* C4 amended: the signature of a message verifies against that message for
\* every valid private key; for every valid private key other than zero it
\* verifies as false against every message that differs in a single byte.
C4_RoundTrip ==
    VerifiesSigned
        => /\ call.msg = signed.msg => (ret.ok /\ ret.value)
           /\ (call.msg \in SingleByteFlips(signed.msg) /\ SignedScalar # 0)
                  => (ret.ok /\ ~ret.value)

\* C4 witness: a signature under a nonzero key was checked against a message
\* with one byte changed, and the answer was false
C4_Witness ==
    /\ VerifiesSigned
    /\ SignedScalar # 0
    /\ call.msg \in SingleByteFlips(signed.msg)
    /\ ret.ok /\ ~ret.value

ExpectedParts ==
    LET sk         == BeValue(input.private_key)
        hashed_msg == RescueHashTxMsg(input.msg)
        sg         == MusigRescueSign(sk, hashed_msg, DeterministicSeed(sk, hashed_msg))
    IN  [pubkey |-> PublicKeyFromPrivate(sk), r |-> sg.r, s |-> sg.s]

\* C6: a successful sign_musig returns 96 bytes: the packed public key of the
\* private key at [0..32], the packed R at [32..64], S at [64..96]; and
\* verify_musig, given that buffer, parses the same three values back.
C6_WireFormat ==
    /\ (call.op = "sign_musig" /\ ret.ok)
          => /\ Len(ret.bytes) = 96
             /\ Slice(ret.bytes, 0, 32) = WritePoint(ExpectedParts.pubkey)
             /\ Slice(ret.bytes, 32, 64) = WritePoint(ExpectedParts.r)
             /\ Slice(ret.bytes, 64, 96) = LeBytes(ExpectedParts.s, 32)
    /\ VerifiesSigned => (ret.ok /\ ret.parsed = ExpectedParts)

\* C6 witness: verify_musig parsed a buffer that sign_musig produced
C6_Witness ==
    VerifiesSigned /\ ret.ok /\ ret.parsed.r # ret.parsed.s

-----------------------------------------------------------------------------
(* ChangePubKey: authorization and signing *)

\* declared account addresses are the values 0..MaxAddr
MaxAddr == 3

\* ZkLinkSigner::sign_musig: the packed 96-byte signature of the bytes
ZkLinkSignerSignMusig(zklink_signer, bytes) ==
    SignMusig(1, BeBytes(zklink_signer, 32), bytes).bytes

\* ZkLinkSigner::public_key().public_key_hash()
PublicKeyHash(zklink_signer) == (PublicKeyFromPrivate(zklink_signer) * 7 + 3) % 256

\* Create2Data::get_address(pubkey_hash): a 20-byte address derived from the
\* creator, the salt (salt argument and public-key hash) and the code hash
Create2GetAddress(data, pubkey_hash) ==
    LET salt == (data.salt_arg * 5 + pubkey_hash * 3 + 1) % 256
    IN  BeBytes((data.creator_address * 31 + salt * 17 + data.code_hash * 13)
                    % (MaxAddr + 1), 20)

\* ChangePubKeyAuthData, as encoded into the transaction bytes
AuthBytes(eth_auth_data) ==
    CASE eth_auth_data.type = "OnChain"    -> <<0>>
      [] eth_auth_data.type = "EthECDSA"   -> <<1, eth_auth_data.eth_signature>>
      [] eth_auth_data.type = "EthCreate2" ->
             <<2, eth_auth_data.data.creator_address, eth_auth_data.data.salt_arg,
               eth_auth_data.data.code_hash>>

\* ChangePubKey::get_bytes: type tag, fields, auth payload; not the signature
ChangePubKeyGetBytes(tx) ==
    <<6, tx.account_id, tx.new_pk_hash, tx.nonce>> \o AuthBytes(tx.eth_auth_data)

\* ChangePubKey::to_eip712_request_payload: the typed-data hash
Eip712Payload(tx, l1_client_id, main_contract) ==
    (tx.account_id * 3 + tx.new_pk_hash * 5 + tx.nonce * 7 + l1_client_id * 11
        + main_contract * 13) % 256

\* PrivateKeySigner::sign_typed_data
EthSignTypedData(eth_signer, typed_data) ==
    IF eth_signer = 0 THEN [ok |-> FALSE, eth_signature |-> 0]
    ELSE [ok |-> TRUE, eth_signature |-> (typed_data * eth_signer + 1) % 256]

OnChainAuth == [type |-> "OnChain"]

EthECDSAAuth(eth_signature) == [type |-> "EthECDSA", eth_signature |-> eth_signature]

EthCreate2Auth(data) == [type |-> "EthCreate2", data |-> data]

\* ZkLinkSignature::default()
DefaultSignature == Zeros(96)

NoTx == [account_id |-> 0, new_pk_hash |-> 0, nonce |-> 0,
         eth_auth_data |-> OnChainAuth, signature |-> <<>>]

\* the comparison of check_create2data, replaced by one that never fails
CheckCreate2DataAlwaysOk(zklink_signer, data, account_address) ==
    [ok |-> TRUE, err |-> ""]

\* check_create2data(zklink_signer, data, account_address)
CheckCreate2Data(zklink_signer, data, account_address) ==
    LET pubkey_hash  == PublicKeyHash(zklink_signer)
        from_address == Create2GetAddress(data, pubkey_hash)
    IN  IF from_address # account_address
        THEN [ok |-> FALSE, err |-> "IncorrectTx"]
        ELSE [ok |-> TRUE, err |-> ""]

\* sign_change_pubkey: the match on auth_request
ResolveAuth(eth_signer, zklink_signer, tx, main_contract, l1_client_id, account_address, auth_request) ==
    CASE auth_request.type = "OnChain" ->
             [ok |-> TRUE, err |-> "", data |-> OnChainAuth]
      [] auth_request.type = "EthECDSA" ->
             LET typed_data == Eip712Payload(tx, l1_client_id, main_contract)
                 signed_eth == EthSignTypedData(eth_signer, typed_data)
             IN  IF ~signed_eth.ok
                 THEN [ok |-> FALSE, err |-> "EthSigningError", data |-> OnChainAuth]
                 ELSE [ok |-> TRUE, err |-> "",
                       data |-> EthECDSAAuth(signed_eth.eth_signature)]
      [] auth_request.type = "EthCreate2" ->
             LET pubkey_hash  == PublicKeyHash(zklink_signer)
                 from_address == Create2GetAddress(auth_request.data, pubkey_hash)
             IN  IF from_address # account_address
                 THEN [ok |-> FALSE, err |-> "IncorrectTx", data |-> OnChainAuth]
                 ELSE [ok |-> TRUE, err |-> "", data |-> EthCreate2Auth(auth_request.data)]

\* the signature computed first and the auth payload attached afterwards
SignThenAttach(zklink_signer, tx, eth_auth_data) ==
    [tx EXCEPT !.signature = ZkLinkSignerSignMusig(zklink_signer, ChangePubKeyGetBytes(tx)),
               !.eth_auth_data = eth_auth_data]

\* sign_change_pubkey: tx.eth_auth_data = ...; tx.signature = sign_musig(get_bytes)
AttachThenSign(zklink_signer, tx, eth_auth_data) ==
    LET with_auth == [tx EXCEPT !.eth_auth_data = eth_auth_data]
    IN  [with_auth EXCEPT !.signature =
             ZkLinkSignerSignMusig(zklink_signer, ChangePubKeyGetBytes(with_auth))]

\* sign_change_pubkey
SignChangePubkey(eth_signer, zklink_signer, tx, main_contract, l1_client_id, account_address, auth_request) ==
    LET eth_auth_data == ResolveAuth(eth_signer, zklink_signer, tx, main_contract,
                                     l1_client_id, account_address, auth_request)
    IN  IF ~eth_auth_data.ok
        THEN [ok |-> FALSE, err |-> eth_auth_data.err, tx |-> NoTx, eth_signature |-> "None"]
        ELSE [ok |-> TRUE, err |-> "",
              tx |-> AttachThenSign(zklink_signer, tx, eth_auth_data.data),
              eth_signature |-> "None"]

\* create_signed_change_pubkey: works on a clone of the caller's transaction
CreateSignedChangePubkey(zklink_signer, tx, eth_auth_data) ==
    LET cloned == [tx EXCEPT !.eth_auth_data = eth_auth_data]
    IN  [ok |-> TRUE, err |-> "",
         tx |-> [cloned EXCEPT !.signature =
                     ZkLinkSignerSignMusig(zklink_signer, ChangePubKeyGetBytes(cloned))]]

\* the inputs tried
ZkLinkSigners == 0..MaxKey

EthSigners == {0, 7}

Create2Datas == [creator_address : {1}, salt_arg : {0, 1}, code_hash : {5}]

\* 20-byte addresses, and a 32-byte address
Addresses == {BeBytes(a, 20) : a \in 0..MaxAddr} \cup {BeBytes(0, 32)}

AuthRequests ==
    {[type |-> "OnChain"], [type |-> "EthECDSA"]}
    \cup {[type |-> "EthCreate2", data |-> d] : d \in Create2Datas}

AuthDatas ==
    {OnChainAuth, EthECDSAAuth(9)} \cup {EthCreate2Auth(d) : d \in Create2Datas}

\* unsigned transactions, as ChangePubKey::new builds them
NewChangePubKeys ==
    [account_id : {1}, new_pk_hash : {PublicKeyHash(k) : k \in ZkLinkSigners},
     nonce : {0, 1}, eth_auth_data : {OnChainAuth}, signature : {DefaultSignature}]

CheckCreate2DataCall(zklink_signer, data, account_address) ==
    /\ call' = [op |-> "check_create2data", zklink_signer |-> zklink_signer,
                data |-> data, account_address |-> account_address]
    /\ ret' = CheckCreate2Data(zklink_signer, data, account_address)
    /\ UNCHANGED <<input, params, signed, again>>

SignChangePubkeyCall(eth_signer, zklink_signer, tx, account_address, auth_request) ==
    /\ call' = [op |-> "sign_change_pubkey", eth_signer |-> eth_signer,
                zklink_signer |-> zklink_signer, tx |-> tx, main_contract |-> 2,
                l1_client_id |-> 1, account_address |-> account_address,
                auth_request |-> auth_request]
    /\ ret' = SignChangePubkey(eth_signer, zklink_signer, tx, 2, 1, account_address,
                               auth_request)
    /\ UNCHANGED <<input, params, signed, again>>

CreateSignedChangePubkeyCall(zklink_signer, tx, eth_auth_data) ==
    /\ call' = [op |-> "create_signed_change_pubkey", zklink_signer |-> zklink_signer,
                tx |-> tx, eth_auth_data |-> eth_auth_data]
    /\ ret' = CreateSignedChangePubkey(zklink_signer, tx, eth_auth_data)
    /\ UNCHANGED <<input, params, signed, again>>

\* the transactions at hand: the caller's, and the one the last call returned
TxsAtHand ==
    {input} \cup (IF call.op \in {"sign_change_pubkey", "create_signed_change_pubkey"}
                     /\ ret.ok
                  THEN {ret.tx} ELSE {})

InitAuth ==
    /\ input \in NewChangePubKeys
    /\ params = [t \in Threads |-> NoParams]
    /\ call = [op |-> "none"]
    /\ ret = [ok |-> TRUE]
    /\ signed = NoSig
    /\ again = FALSE

NextAuth ==
    \/ \E zs \in ZkLinkSigners, d \in Create2Datas, a \in Addresses :
          CheckCreate2DataCall(zs, d, a)
    \/ \E es \in EthSigners, zs \in ZkLinkSigners, a \in Addresses, ar \in AuthRequests :
          SignChangePubkeyCall(es, zs, input, a, ar)
    \/ \E zs \in ZkLinkSigners, tx \in TxsAtHand, ad \in AuthDatas :
          CreateSignedChangePubkeyCall(zs, tx, ad)

SpecAuth == InitAuth /\ [][NextAuth]_vars

\* C1: check_create2data, and sign_change_pubkey asked for EthCreate2,
\* succeed exactly when the address derived from the Create2 data and the
\* signer's public-key hash equals the declared account address; otherwise
\* they fail with IncorrectTx, and sign_change_pubkey returns no transaction.
C1_Create2Check ==
    /\ call.op = "check_create2data"
          => LET same == Create2GetAddress(call.data, PublicKeyHash(call.zklink_signer))
                             = call.account_address
             IN  /\ ret.ok <=> same
                 /\ ~same => ret.err = "IncorrectTx"
    /\ (call.op = "sign_change_pubkey" /\ call.auth_request.type = "EthCreate2")
          => LET same == Create2GetAddress(call.auth_request.data,
                                           PublicKeyHash(call.zklink_signer))
                             = call.account_address
             IN  /\ ret.ok <=> same
                 /\ ~same => (ret.err = "IncorrectTx" /\ ret.tx = NoTx)
                 /\ same => ret.tx.eth_auth_data = EthCreate2Auth(call.auth_request.data)

\* C1 witness: sign_change_pubkey refused Create2 data whose address differs
\* from the declared one only in length
C1_Witness ==
    /\ call.op = "sign_change_pubkey"
    /\ call.auth_request.type = "EthCreate2"
    /\ Len(call.account_address) = 32
    /\ ~ret.ok

\* the auth payload a successful call is to store in the transaction
ExpectedAuth ==
    IF call.op = "create_signed_change_pubkey" THEN call.eth_auth_data
    ELSE CASE call.auth_request.type = "OnChain" -> OnChainAuth
           [] call.auth_request.type = "EthCreate2" ->
                  EthCreate2Auth(call.auth_request.data)
           [] call.auth_request.type = "EthECDSA" ->
                  EthECDSAAuth(EthSignTypedData(call.eth_signer,
                                   Eip712Payload(call.tx, call.l1_client_id,
                                                 call.main_contract)).eth_signature)

\* C2: the transaction returned by sign_change_pubkey or
\* create_signed_change_pubkey holds the resolved auth payload, and its
\* signature is the signer's signature of get_bytes() of that returned
\* transaction.
C2_AuthBeforeSigning ==
    (call.op \in {"sign_change_pubkey", "create_signed_change_pubkey"} /\ ret.ok)
        => /\ ret.tx.eth_auth_data = ExpectedAuth
           /\ ret.tx.signature =
                 ZkLinkSignerSignMusig(call.zklink_signer, ChangePubKeyGetBytes(ret.tx))

\* C2 witness: sign_change_pubkey returned a transaction whose bytes differ
\* from those of the transaction it was given
C2_Witness ==
    /\ call.op = "sign_change_pubkey"
    /\ ret.ok
    /\ call.auth_request.type = "EthECDSA"
    /\ ChangePubKeyGetBytes(ret.tx) # ChangePubKeyGetBytes(call.tx)

-----------------------------------------------------------------------------
(* TxHash and H256: hex strings.  A string is a sequence of characters. *)

\* hex strings of 64 - MaxHexSlack .. 64 + MaxHexSlack + 2 digits are tried
MaxHexSlack == 2

HexDigits == <<"0", "1", "2", "3", "4", "5", "6", "7", "8", "9",
               "a", "b", "c", "d", "e", "f">>

UpperHexDigits == <<"A", "B", "C", "D", "E", "F">>

\* the value of a hex digit of either case, -1 for any other character
HexDigitValue(c) ==
    IF \E i \in 1..16 : HexDigits[i] = c
    THEN (CHOOSE i \in 1..16 : HexDigits[i] = c) - 1
    ELSE IF \E i \in 1..6 : UpperHexDigits[i] = c
    THEN (CHOOSE i \in 1..6 : UpperHexDigits[i] = c) + 9
    ELSE -1

\* hex::decode: fails on an odd length and on a character that is no digit
HexDecode(str) ==
    IF Len(str) % 2 # 0 \/ \E i \in 1..Len(str) : HexDigitValue(str[i]) < 0
    THEN [ok |-> FALSE, bytes |-> <<>>]
    ELSE [ok |-> TRUE,
          bytes |-> [i \in 1..(Len(str) \div 2) |->
                        16 * HexDigitValue(str[2 * i - 1]) + HexDigitValue(str[2 * i])]]

\* hex::encode: two lowercase digits per byte
HexEncode(bytes) ==
    [i \in 1..(2 * Len(bytes)) |->
        IF i % 2 = 1 THEN HexDigits[(bytes[(i + 1) \div 2] \div 16) + 1]
        ELSE HexDigits[(bytes[i \div 2] % 16) + 1]]

\* ZeroxPrefix::prefix()
ZeroxPrefix == <<"0", "x">>

\* str::starts_with
StartsWith(str, prefix) ==
    Len(str) >= Len(prefix) /\ SubSeq(str, 1, Len(prefix)) = prefix

\* str::strip_prefix(..).unwrap_or(str)
StripPrefixOr(str, prefix) ==
    IF StartsWith(str, prefix) THEN SubSeq(str, Len(prefix) + 1, Len(str)) ELSE str

NoHash == <<>>

\* a prefix test that lets every string through
PrefixNotChecked(str) == TRUE

\* TxHash::from_str: ensure!(s.starts_with(zerox_prefix))
HasZeroxPrefix(str) == StartsWith(str, ZeroxPrefix)

\* TxHash::from_str
TxHashFromStr(str) ==
    IF ~HasZeroxPrefix(str)
    THEN [ok |-> FALSE, err |-> "TxHash should start with 0x", data |-> NoHash]
    ELSE LET decoded == HexDecode(SubSeq(str, Len(ZeroxPrefix) + 1, Len(str))) IN
         IF ~decoded.ok
         THEN [ok |-> FALSE, err |-> "FromHexError", data |-> NoHash]
         ELSE IF Len(decoded.bytes) # 32
         THEN [ok |-> FALSE, err |-> "Size mismatch", data |-> NoHash]
         ELSE [ok |-> TRUE, err |-> "", data |-> decoded.bytes]

\* TxHash::from_slice: None unless the slice is as long as the hash
TxHashFromSlice(slice) ==
    IF Len(slice) # 32
    THEN [ok |-> FALSE, err |-> "None", data |-> NoHash]
    ELSE [ok |-> TRUE, err |-> "", data |-> slice]

\* TxHash::to_string
TxHashToString(data) == ZeroxPrefix \o HexEncode(data)

\* H256 as UniffiCustomTypeConverter: into_custom
H256IntoCustom(val) ==
    LET str == StripPrefixOr(val, <<"0", "x">>)
        raw == HexDecode(str)
    IN  IF ~raw.ok
        THEN [ok |-> FALSE, err |-> "FromHexError", data |-> NoHash]
        ELSE IF Len(raw.bytes) # 32
        THEN [ok |-> FALSE, err |-> "SizeMismatch", data |-> NoHash]
        ELSE [ok |-> TRUE, err |-> "", data |-> raw.bytes]

\* H256 as UniffiCustomTypeConverter: from_custom
H256FromCustom(obj) == <<"0", "x">> \o HexEncode(obj)

\* the 32-byte values tried
Hashes ==
    {Zeros(32), [i \in 1..32 |-> 255], [i \in 1..32 |-> (7 * i) % 256], BeBytes(43981, 32)}

\* the slices tried
Slices == Hashes \cup {Zeros(n) : n \in {0, 31, 33}}

\* the prefixes tried: none, the right one, and two near misses
Prefixes == {<<>>, <<"0", "x">>, <<"0", "X">>, <<"x">>}

\* the digit strings tried: one character repeated, and some with one
\* character replaced
Bodies ==
    LET lens  == {0, 1} \cup ((64 - MaxHexSlack)..(64 + MaxHexSlack + 2))
        plain == {[i \in 1..n |-> c] : n \in lens, c \in {"0", "a", "F"}}
    IN  plain \cup {[b EXCEPT ![Len(b)] = "g"] : b \in {x \in plain : Len(x) > 0 /\ x[1] = "0"}}

\* the strings handed to the parsers
HexStrings ==
    {pre \o body : pre \in Prefixes, body \in Bodies}
    \cup {TxHashToString(h) : h \in Hashes}

TxHashFromStrCall(str) ==
    /\ call' = [op |-> "TxHash::from_str", s |-> str]
    /\ ret' = TxHashFromStr(str)
    /\ UNCHANGED <<input, params, signed, again>>

TxHashFromSliceCall(slice) ==
    /\ call' = [op |-> "TxHash::from_slice", slice |-> slice]
    /\ ret' = TxHashFromSlice(slice)
    /\ UNCHANGED <<input, params, signed, again>>

TxHashToStringCall(data) ==
    /\ call' = [op |-> "TxHash::to_string", data |-> data]
    /\ ret' = [ok |-> TRUE, err |-> "", str |-> TxHashToString(data)]
    /\ UNCHANGED <<input, params, signed, again>>

H256IntoCustomCall(val) ==
    /\ call' = [op |-> "H256::into_custom", val |-> val]
    /\ ret' = H256IntoCustom(val)
    /\ UNCHANGED <<input, params, signed, again>>

H256FromCustomCall(obj) ==
    /\ call' = [op |-> "H256::from_custom", obj |-> obj]
    /\ ret' = [ok |-> TRUE, err |-> "", str |-> H256FromCustom(obj)]
    /\ UNCHANGED <<input, params, signed, again>>

\* the 32-byte value last parsed or built, if any
HashesAtHand ==
    Hashes \cup (IF call.op \in {"TxHash::from_str", "TxHash::from_slice",
                                 "H256::into_custom"} /\ ret.ok
                 THEN {ret.data} ELSE {})

\* the strings at hand: the fixed ones and the one last produced
StringsAtHand ==
    HexStrings \cup (IF call.op \in {"TxHash::to_string", "H256::from_custom"}
                     THEN {ret.str} ELSE {})

InitHash ==
    /\ input = [none |-> TRUE]
    /\ params = [t \in Threads |-> NoParams]
    /\ call = [op |-> "none"]
    /\ ret = [ok |-> TRUE]
    /\ signed = NoSig
    /\ again = FALSE

NextHash ==
    \/ \E str \in StringsAtHand : TxHashFromStrCall(str)
    \/ \E slice \in Slices : TxHashFromSliceCall(slice)
    \/ \E data \in HashesAtHand : TxHashToStringCall(data)
    \/ \E val \in StringsAtHand : H256IntoCustomCall(val)
    \/ \E obj \in HashesAtHand : H256FromCustomCall(obj)

SpecHash == InitHash /\ [][NextHash]_vars

\* whether every character of the string is a hex digit
AllHex(str) == \A i \in 1..Len(str) : HexDigitValue(str[i]) >= 0

\* the string is 0x followed by 64 hex digits
IsPrefixedHash(str) ==
    /\ Len(str) = 66
    /\ str[1] = "0" /\ str[2] = "x"
    /\ AllHex(SubSeq(str, 3, 66))

\* C7: TxHash::from_str fails on every string that does not start with 0x
\* and on every string whose hex part does not decode to exactly 32 bytes;
\* TxHash::from_slice gives None for every slice whose length is not 32;
\* every TxHash produced holds exactly 32 bytes, the ones it was given.
C7_TxHashStrict ==
    /\ call.op = "TxHash::from_str"
          => /\ ret.ok <=> IsPrefixedHash(call.s)
             /\ ret.ok => /\ Len(ret.data) = 32
                          /\ HexEncode(ret.data) = HexEncode(HexDecode(SubSeq(call.s, 3, 66)).bytes)
    /\ call.op = "TxHash::from_slice"
          => /\ ret.ok <=> Len(call.slice) = 32
             /\ ret.ok => ret.data = call.slice

\* C7 witness: 66 hex digits without the prefix were refused
C7_Witness ==
    /\ call.op = "TxHash::from_str"
    /\ Len(call.s) = 66
    /\ AllHex(call.s)
    /\ ~ret.ok

\* C8 as stated: H256::into_custom refuses every string without the 0x
\* prefix and every string that does not decode to 32 bytes; from_custom
\* gives 0x and 64 hex digits; into_custom of from_custom is the identity.
C8_H256Strict ==
    /\ call.op = "H256::into_custom"
          => /\ ret.ok => IsPrefixedHash(call.val)
             /\ (\E h \in HashesAtHand : call.val = H256FromCustom(h))
                    => (ret.ok /\ call.val = H256FromCustom(ret.data))
    /\ call.op = "H256::from_custom"
          => /\ IsPrefixedHash(ret.str)
             /\ H256IntoCustom(ret.str) = [ok |-> TRUE, err |-> "", data |-> call.obj]

-----------------------------------------------------------------------------
(* Scalar identifiers, Order and OrderMatching *)

\* the widest values the field validators accept
MAX_ACCOUNT_ID == 16777215

MAX_SUB_ACCOUNT_ID == 31

MAX_SLOT_ID == 65535

MAX_NONCE == 16777215

MAX_TOKEN_ID == 65535

\* the packing codec keeps a mantissa of 0..MAX_MANTISSA and a decimal
\* exponent of 0..MAX_EXPONENT
MAX_MANTISSA == 7

MAX_EXPONENT == 3

PRICE_BIT_WIDTH == 120

RECURSIVE Pow10(_)
Pow10(e) == IF e = 0 THEN 1 ELSE 10 * Pow10(e - 1)

\* is_token_amount_packable / is_fee_amount_packable: packing loses nothing
AmountPackable(amount) ==
    \E e \in 0..MAX_EXPONENT, m \in 0..MAX_MANTISSA : amount = m * Pow10(e)

\* BigUint::to_bytes_be of a value below 2^31: no leading zeros, [0] for zero
ToBytesBe(n) ==
    IF n = 0 THEN <<0>>
    ELSE LET len == CHOOSE k \in 1..4 : n \div Pow256(k - 1) > 0
                                       /\ (k = 4 \/ n \div Pow256(k) = 0)
         IN  BeBytes(n, len)

\* ffi_convert!: into_custom of a scalar identifier wraps the value as it is
FfiIntoCustom(name, val) == [ok |-> TRUE, err |-> "", value |-> val]

\* ffi_convert!: from_custom
FfiFromCustom(name, obj) == obj

\* the field validators of Order
AccountValidator(account_id) == account_id <= MAX_ACCOUNT_ID

SubAccountValidator(sub_account_id) == sub_account_id <= MAX_SUB_ACCOUNT_ID

SlotIdValidator(slot_id) == slot_id <= MAX_SLOT_ID

NonceValidator(nonce) == nonce <= MAX_NONCE

TokenValidator(token_id) == token_id <= MAX_TOKEN_ID

\* price is a big-endian byte string; it must fit PRICE_BIT_WIDTH bits
PriceValidator(price) == Len(price) <= PRICE_BIT_WIDTH \div 8

BooleanValidator(is_sell) == is_sell \in {0, 1}

\* Order::validate with the side flag left unchecked
OrderValidateNoBoolean(order) ==
    /\ AccountValidator(order.account_id)
    /\ SubAccountValidator(order.sub_account_id)
    /\ SlotIdValidator(order.slot_id)
    /\ NonceValidator(order.nonce)
    /\ TokenValidator(order.base_token_id)
    /\ TokenValidator(order.quote_token_id)
    /\ AmountPackable(order.amount)
    /\ PriceValidator(order.price)

\* Order::validate (derived from the #[validate] attributes of the fields)
OrderValidate(order) ==
    /\ AccountValidator(order.account_id)
    /\ SubAccountValidator(order.sub_account_id)
    /\ SlotIdValidator(order.slot_id)
    /\ NonceValidator(order.nonce)
    /\ TokenValidator(order.base_token_id)
    /\ TokenValidator(order.quote_token_id)
    /\ AmountPackable(order.amount)
    /\ PriceValidator(order.price)
    /\ BooleanValidator(order.is_sell)

\* Order::is_validate
OrderIsValidate(order) == OrderValidate(order)

\* OrderMatching::validate: its own fields, and the nested orders
OrderMatchingValidate(om) ==
    /\ AccountValidator(om.account_id)
    /\ SubAccountValidator(om.sub_account_id)
    /\ OrderValidate(om.taker)
    /\ OrderValidate(om.maker)
    /\ AmountPackable(om.fee)
    /\ TokenValidator(om.fee_token)

\* OrderMatching::is_validate
OrderMatchingIsValidate(om) ==
    IF OrderMatchingValidate(om)
    THEN OrderIsValidate(om.maker) /\ OrderIsValidate(om.taker)
    ELSE FALSE

\* pad_front: panics when the bytes are longer than size
PadFront(bytes, size) ==
    IF size >= Len(bytes)
    THEN [ok |-> TRUE, bytes |-> Zeros(size - Len(bytes)) \o bytes]
    ELSE [ok |-> FALSE, bytes |-> <<>>]

\* pack_token_amount: mantissa and exponent in five bytes; an amount that
\* is not packable is rounded down
PackTokenAmount(amount) ==
    LET fits == {e \in 0..MAX_EXPONENT : amount \div Pow10(e) <= MAX_MANTISSA}
        e    == IF \E x \in fits : amount % Pow10(x) = 0
                THEN CHOOSE x \in fits : amount % Pow10(x) = 0
                ELSE IF fits # {} THEN CHOOSE x \in fits : \A y \in fits : x <= y
                ELSE MAX_EXPONENT
        m    == IF fits # {} THEN amount \div Pow10(e) ELSE MAX_MANTISSA
    IN  BeBytes(m * 32 + e, 5)

\* `x as u16`
AsU16(x) == x % 65536

\* Order::get_bytes
OrderGetBytes(order) ==
    LET price == PadFront(order.price, PRICE_BIT_WIDTH \div 8) IN
    IF ~price.ok THEN [ok |-> FALSE, err |-> "panic", bytes |-> <<>>]
    ELSE [ok |-> TRUE, err |-> "",
          bytes |-> <<255>>
                    \o BeBytes(order.account_id, 4)
                    \o BeBytes(order.sub_account_id, 1)
                    \o BeBytes(AsU16(order.slot_id), 2)
                    \o Slice(BeBytes(order.nonce, 4), 1, 4)
                    \o BeBytes(AsU16(order.base_token_id), 2)
                    \o BeBytes(AsU16(order.quote_token_id), 2)
                    \o price.bytes
                    \o BeBytes(order.is_sell, 1)
                    \o BeBytes(order.fee_ratio1, 1)
                    \o BeBytes(order.fee_ratio2, 1)
                    \o PackTokenAmount(order.amount)]

\* Order::new, the identifiers coming through the FFI converters
OrderNew(account_id, sub_account_id, slot_id, nonce, base_token_id, quote_token_id, amount, price, is_sell, fee_ratio1, fee_ratio2) ==
    [account_id |-> FfiIntoCustom("AccountId", account_id).value,
     sub_account_id |-> FfiIntoCustom("SubAccountId", sub_account_id).value,
     slot_id |-> FfiIntoCustom("SlotId", slot_id).value,
     nonce |-> FfiIntoCustom("Nonce", nonce).value,
     base_token_id |-> FfiIntoCustom("TokenId", base_token_id).value,
     quote_token_id |-> FfiIntoCustom("TokenId", quote_token_id).value,
     amount |-> amount, price |-> price, is_sell |-> is_sell,
     fee_ratio1 |-> fee_ratio1, fee_ratio2 |-> fee_ratio2,
     signature |-> DefaultSignature]

\* OrderMatching::new
OrderMatchingNew(account_id, sub_account_id, taker, maker, fee, fee_token, expect_base_amount, expect_quote_amount) ==
    [account_id |-> account_id, sub_account_id |-> sub_account_id,
     taker |-> taker, maker |-> maker, fee |-> fee, fee_token |-> fee_token,
     expect_base_amount |-> expect_base_amount,
     expect_quote_amount |-> expect_quote_amount,
     signature |-> DefaultSignature]

\* the order of the end-to-end scenario
GoodOrder == OrderNew(1, 0, 5, 0, 1, 2, 1000, ToBytesBe(50000), 0, 5, 10)

\* orders that differ from it in one field
Orders ==
    { GoodOrder,
      [GoodOrder EXCEPT !.is_sell = 1],
      [GoodOrder EXCEPT !.account_id = MAX_ACCOUNT_ID + 1],
      [GoodOrder EXCEPT !.sub_account_id = MAX_SUB_ACCOUNT_ID + 1],
      [GoodOrder EXCEPT !.slot_id = 65536 + 5],
      [GoodOrder EXCEPT !.nonce = 16777216 + 1],
      [GoodOrder EXCEPT !.base_token_id = 65536 + 1],
      [GoodOrder EXCEPT !.quote_token_id = 65536 + 2],
      [GoodOrder EXCEPT !.amount = 11],
      [GoodOrder EXCEPT !.price = [i \in 1..16 |-> 1]],
      [GoodOrder EXCEPT !.is_sell = 2] }

OrderMatchings ==
    {OrderMatchingNew(a, 0, taker, maker, 0, 1, 0, 0) :
        a \in {1, MAX_ACCOUNT_ID + 1}, taker \in Orders, maker \in Orders}

\* the scalar identifier types of ffi_convert! and the width, in bits, of the
\* field Order::get_bytes writes each into
IdentifierWidth ==
    [SlotId |-> 16, TokenId |-> 16, Nonce |-> 24, AccountId |-> 32, SubAccountId |-> 8]

\* the width, in bits, of each converter's Builtin type (u32, u8)
BuiltinWidth ==
    [SlotId |-> 32, TokenId |-> 32, Nonce |-> 32, AccountId |-> 32, SubAccountId |-> 8]

IdentifierNames == {"SlotId", "TokenId", "Nonce", "AccountId", "SubAccountId"}

\* the values handed to the converters
IdentifierValues == {0, 5, 255, 256, 65535, 65536, 16777215, 16777216}

\* whether the value fits in that many bits
FitsBits(val, bits) ==
    CASE bits = 8 -> val < 256
      [] bits = 16 -> val < 65536
      [] bits = 24 -> val < 16777216
      [] bits = 32 -> TRUE

FfiIntoCustomCall(name, val) ==
    /\ call' = [op |-> "into_custom", name |-> name, val |-> val]
    /\ ret' = FfiIntoCustom(name, val)
    /\ UNCHANGED <<input, params, signed, again>>

OrderGetBytesCall(order) ==
    /\ call' = [op |-> "Order::get_bytes", order |-> order]
    /\ ret' = OrderGetBytes(order)
    /\ UNCHANGED <<input, params, signed, again>>

OrderIsValidateCall(order) ==
    /\ call' = [op |-> "Order::is_validate", order |-> order]
    /\ ret' = [ok |-> TRUE, err |-> "", value |-> OrderIsValidate(order)]
    /\ UNCHANGED <<input, params, signed, again>>

OrderMatchingIsValidateCall(om) ==
    /\ call' = [op |-> "OrderMatching::is_validate", om |-> om]
    /\ ret' = [ok |-> TRUE, err |-> "", value |-> OrderMatchingIsValidate(om)]
    /\ UNCHANGED <<input, params, signed, again>>

InitOrder ==
    /\ input \in OrderMatchings
    /\ params = [t \in Threads |-> NoParams]
    /\ call = [op |-> "none"]
    /\ ret = [ok |-> TRUE]
    /\ signed = NoSig
    /\ again = FALSE

NextOrder ==
    \/ \E name \in IdentifierNames :
          \E val \in {v \in IdentifierValues : FitsBits(v, BuiltinWidth[name])} :
             FfiIntoCustomCall(name, val)
    \/ \E order \in {input.maker, input.taker} : OrderGetBytesCall(order)
    \/ \E order \in {input.maker, input.taker} : OrderIsValidateCall(order)
    \/ OrderMatchingIsValidateCall(input)

SpecOrder == InitOrder /\ [][NextOrder]_vars

\* the field conditions of an Order, one by one
OrderFieldsValid(order) ==
    /\ order.account_id <= MAX_ACCOUNT_ID
    /\ order.sub_account_id <= MAX_SUB_ACCOUNT_ID
    /\ order.slot_id <= MAX_SLOT_ID
    /\ order.nonce <= MAX_NONCE
    /\ order.base_token_id <= MAX_TOKEN_ID
    /\ order.quote_token_id <= MAX_TOKEN_ID
    /\ AmountPackable(order.amount)
    /\ Len(order.price) <= PRICE_BIT_WIDTH \div 8
    /\ order.is_sell \in {0, 1}

\* C9: OrderMatching::is_validate is true only if the outer fields are valid
\* and maker and taker each satisfy every field condition of Order.
C9_NestedValidation ==
    (call.op = "OrderMatching::is_validate" /\ ret.value)
        => /\ call.om.account_id <= MAX_ACCOUNT_ID
           /\ call.om.sub_account_id <= MAX_SUB_ACCOUNT_ID
           /\ AmountPackable(call.om.fee)
           /\ call.om.fee_token <= MAX_TOKEN_ID
           /\ OrderFieldsValid(call.om.maker)
           /\ OrderFieldsValid(call.om.taker)
           /\ OrderIsValidate(call.om.maker)
           /\ OrderIsValidate(call.om.taker)

\* C9 witness: valid outer fields and a valid maker, and an invalid taker
\* made is_validate answer false
C9_Witness ==
    /\ call.op = "OrderMatching::is_validate"
    /\ call.om.account_id <= MAX_ACCOUNT_ID
    /\ OrderFieldsValid(call.om.maker)
    /\ call.om.taker.is_sell = 2
    /\ ~ret.value

\* C10 as stated: building a scalar identifier from a value wider than its
\* on-chain field fails, and every identifier Order::get_bytes writes fits
\* its field, so the bytes written hold the whole value.
C10_IdentifierRange ==
    /\ (call.op = "into_custom" /\ ~FitsBits(call.val, IdentifierWidth[call.name]))
          => ~ret.ok
    /\ (call.op = "Order::get_bytes" /\ ret.ok)
          => /\ FitsBits(call.order.slot_id, 16)
             /\ FitsBits(call.order.base_token_id, 16)
             /\ FitsBits(call.order.quote_token_id, 16)
             /\ FitsBits(call.order.nonce, 24)
             /\ BeValue(Slice(ret.bytes, 6, 8)) = call.order.slot_id
             /\ BeValue(Slice(ret.bytes, 11, 13)) = call.order.base_token_id
             /\ BeValue(Slice(ret.bytes, 13, 15)) = call.order.quote_token_id

-----------------------------------------------------------------------------
(* The thread-local parameter sets, one `with` at a time *)

\* a thread-local slot is rebuilt at most this many times in the model
MaxBuilds == 2

\* a thread-local slot before its first use
Uninit == [built |-> FALSE]

\* AltJubjubBn256::new(): the initializer of JUBJUB_PARAMS takes no input
AltJubjubBn256New ==
    [built |-> TRUE, order |-> FsOrder, modulus |-> GroupModulus,
     generator |-> SpendingKeyGenerator]

\* Bn256RescueParams::new_checked_2_into_1(): the initializer of RESCUE_PARAMS
Bn256RescueParamsNew == [built |-> TRUE, rate |-> 2, capacity |-> 1]

\* the initializer of each thread-local key
ParamsInitializer == [jubjub |-> AltJubjubBn256New, rescue |-> Bn256RescueParamsNew]

\* a slot whose initializer is run on every access
NeedsInitAlways(slot) == TRUE

\* thread_local!: the initializer runs when the slot is first accessed
NeedsInit(slot) == slot = Uninit

\* the accesses zksync_crypto_init makes, in order
InitSteps == <<"jubjub", "rescue">>

\* the accesses sign_musig makes: none when the private key does not parse
SignSteps(private_key, msg) ==
    IF PrivkeyFromSlice(private_key).ok
    THEN <<"jubjub", "jubjub", "rescue">>
    ELSE <<>>

\* the accesses verify_musig makes, up to the point where it returns
VerifySteps(msg, signature) ==
    LET out == VerifyMusig(msg, signature) IN
    IF out.read = <<>> THEN <<>>
    ELSE IF out.read = <<"pubkey">> THEN <<"jubjub">>
    ELSE IF ~out.ok THEN <<"jubjub", "jubjub">>
    ELSE <<"jubjub", "jubjub", "jubjub", "rescue">>

\* a signature buffer to verify, and buffers that fail at each stage
SomeSignature == SignMusig(1, BeBytes(1, 32), <<>>).bytes

ParamsVerifyInputs ==
    { Zeros(95), Zeros(96), Slice(SomeSignature, 0, 32) \o Zeros(64), SomeSignature }

Idle == [op |-> "none", todo |-> <<>>]

\* what thread t is in once it has entered a call that makes these accesses
Entered(t, op, steps) == [call EXCEPT ![t] = [op |-> op, todo |-> steps]]

\* KEY.with(..) on thread t, the next access of the call the thread is in:
\* the slot is initialised if need be, and the closure sees its value
ParamsWith(t) ==
    /\ call[t].todo # <<>>
    /\ LET key   == Head(call[t].todo)
           build == NeedsInit(params[t][key])
           value == IF build THEN ParamsInitializer[key] ELSE params[t][key]
       IN  /\ build => signed[t][key] < MaxBuilds
           /\ params' = [params EXCEPT ![t][key] = value]
           /\ signed' = [signed EXCEPT ![t][key] = IF build THEN @ + 1 ELSE @]
           /\ ret' = [ret EXCEPT ![key] = @ \cup {value}]
    /\ call' = [call EXCEPT ![t].todo = Tail(@)]
    /\ UNCHANGED <<input, again>>

\* params: the slots of each thread; call: the call each thread is in;
\* signed: how often each slot was built; ret: the values the closures saw
InitParams ==
    /\ input = <<>>
    /\ params = [t \in Threads |-> [jubjub |-> Uninit, rescue |-> Uninit]]
    /\ call = [t \in Threads |-> Idle]
    /\ ret = [jubjub |-> {}, rescue |-> {}]
    /\ signed = [t \in Threads |-> [jubjub |-> 0, rescue |-> 0]]
    /\ again = FALSE

\* thread t, in no call, calls zksync_crypto_init()
ZksyncCryptoInitEnter(t) ==
    /\ call[t].todo = <<>>
    /\ call' = Entered(t, "zksync_crypto_init", InitSteps)
    /\ UNCHANGED <<input, params, ret, signed, again>>

\* thread t, in no call, calls sign_musig(private_key, msg)
SignMusigEnter(t, private_key, msg) ==
    /\ call[t].todo = <<>>
    /\ call' = Entered(t, "sign_musig", SignSteps(private_key, msg))
    /\ UNCHANGED <<input, params, ret, signed, again>>

\* thread t, in no call, calls verify_musig(msg, signature)
VerifyMusigEnter(t, msg, signature) ==
    /\ call[t].todo = <<>>
    /\ call' = Entered(t, "verify_musig", VerifySteps(msg, signature))
    /\ UNCHANGED <<input, params, ret, signed, again>>

NextParams ==
    \/ \E t \in Threads : ZksyncCryptoInitEnter(t)
    \/ \E t \in Threads, private_key \in PrivateKeys, msg \in Msgs :
          SignMusigEnter(t, private_key, msg)
    \/ \E t \in Threads, msg \in Msgs, signature \in ParamsVerifyInputs :
          VerifyMusigEnter(t, msg, signature)
    \/ \E t \in Threads : ParamsWith(t)

SpecParams == InitParams /\ [][NextParams]_vars

ParamsKeys == {"jubjub", "rescue"}

\* every slot has been built at most once, and exactly once if it holds a value
BuiltOnce ==
    \A t \in Threads, key \in ParamsKeys :
        /\ signed[t][key] <= 1
        /\ (params[t][key] # Uninit) <=> (signed[t][key] = 1)

\* all the values the closures of a key have seen, on any thread, are one value
OneValueSeen ==
    \A key \in ParamsKeys : Cardinality(ret[key]) <= 1

\* a step leaves every initialised slot, and its build count, as it was
NeverMutated ==
    \A t \in Threads, key \in ParamsKeys :
        params[t][key] # Uninit
            => /\ params'[t][key] = params[t][key]
               /\ signed'[t][key] = signed[t][key]

\* C11: with the threads calling zksync_crypto_init, sign_musig and
\* verify_musig in any interleaving, each thread's JUBJUB_PARAMS and
\* RESCUE_PARAMS are initialised at most once (exactly once when used), an
\* initialised instance never changes afterwards, so that a repeated
\* zksync_crypto_init changes nothing, and no two accesses see different values.
C11_ParamsInitOnce ==
    [](BuiltOnce /\ OneValueSeen) /\ [][NeverMutated]_vars

\* C11 witness: a thread is in a repeated zksync_crypto_init, about to access
\* slots it has initialised before, while another thread is in the middle of
\* sign_musig with its parameters half initialised
C11_Witness ==
    \E t \in Threads : \E u \in Threads \ {t} :
        /\ call[t].op = "zksync_crypto_init"
        /\ call[t].todo = <<"rescue">>
        /\ params[t].rescue # Uninit
        /\ call[u].op = "sign_musig"
        /\ call[u].todo = <<"jubjub", "rescue">>
        /\ params[u].rescue = Uninit
        /\ ret.jubjub # {}

-----------------------------------------------------------------------------
(* The byte layout of Order *)

\* basic_types::params::SIGNED_ORDER_BIT_WIDTH: 38 bytes
SIGNED_ORDER_BIT_WIDTH == 304

\* C12 as stated: for every Order, get_bytes returns SIGNED_ORDER_BIT_WIDTH/8
\* bytes that start with the tag 0xff, with every field at its fixed offset
\* and the price left-padded with zeros to PRICE_BIT_WIDTH/8 bytes; the
\* signature field has no part in the bytes.
C12_FixedWidth ==
    call.op = "Order::get_bytes"
        => /\ ret.ok
           /\ Len(ret.bytes) = SIGNED_ORDER_BIT_WIDTH \div 8
           /\ ret.bytes[1] = 255
           /\ Slice(ret.bytes, 1, 5) = BeBytes(call.order.account_id, 4)
           /\ Slice(ret.bytes, 5, 6) = <<call.order.sub_account_id>>
           /\ Slice(ret.bytes, 15, 15 + PRICE_BIT_WIDTH \div 8)
                  = Zeros(PRICE_BIT_WIDTH \div 8 - Len(call.order.price))
                    \o call.order.price
           /\ Slice(ret.bytes, 30, 33)
                  = <<call.order.is_sell, call.order.fee_ratio1, call.order.fee_ratio2>>
           /\ Slice(ret.bytes, 33, 38) = PackTokenAmount(call.order.amount)
           /\ OrderGetBytes([call.order EXCEPT !.signature = Zeros(95) \o <<1>>]) = ret

-----------------------------------------------------------------------------
(* The byte layout of OrderMatching *)

\* basic_types::params::ORDERS_BYTES: the width of the hashed order block
ORDERS_BYTES == 178

\* OrderMatching::TX_TYPE
ORDER_MATCHING_TX_TYPE == 8

\* the width, in bytes, of the digest rescue_hash_orders returns
ORDERS_HASH_BYTES == 31

\* Vec::resize(size, 0): cut at the end, or filled up with zeros
Resize(bytes, size) ==
    IF Len(bytes) >= size THEN SubSeq(bytes, 1, size)
    ELSE bytes \o Zeros(size - Len(bytes))

RECURSIVE HashRange(_, _, _)
\* the digest of the bytes lo..hi of msg: a sum of the bytes, each weighted
\* by its position, in the scalar field
HashRange(msg, lo, hi) ==
    IF lo > hi THEN 0
    ELSE IF lo = hi THEN ((msg[lo] + 1) * (1 + (lo % 131))) % FsOrder
    ELSE LET mid == (lo + hi) \div 2
         IN  (HashRange(msg, lo, mid) + HashRange(msg, mid + 1, hi)) % FsOrder

\* rescue_hash_orders: the digest of the order block, as bytes
RescueHashOrders(msg) == BeBytes(HashRange(msg, 1, Len(msg)), ORDERS_HASH_BYTES)

\* pack_fee_amount: mantissa and exponent in two bytes
PackFeeAmount(fee) == Slice(PackTokenAmount(fee), 3, 5)

\* BigUint::to_u128 of a number given by its big-endian bytes: None when the
\* number takes more than 16 bytes
ToU128(amount) ==
    IF Len(amount) <= 16
    THEN [some |-> TRUE, bytes |-> Zeros(16 - Len(amount)) \o amount]
    ELSE [some |-> FALSE, bytes |-> <<>>]

\* the order block with the taker's bytes put first
OrdersBytesTakerFirst(maker_order_bytes, taker_order_bytes) ==
    Resize(taker_order_bytes \o maker_order_bytes, ORDERS_BYTES)

\* the block OrderMatching::get_bytes hashes: maker, then taker, resized
OrdersBytes(maker_order_bytes, taker_order_bytes) ==
    Resize(maker_order_bytes \o taker_order_bytes, ORDERS_BYTES)

\* expect_*_amount.to_u128().unwrap().to_be_bytes()
CapBytes(amount) == ToU128(amount)

Panicked == [ok |-> FALSE, err |-> "panic", bytes |-> <<>>, block |-> <<>>]

\* OrderMatching::get_bytes: the bytes, and the block that was hashed
OrderMatchingGetBytes(om) ==
    LET maker_order_bytes == OrderGetBytes(om.maker)
        taker_order_bytes == OrderGetBytes(om.taker)
        base  == CapBytes(om.expect_base_amount)
        quote == CapBytes(om.expect_quote_amount)
    IN  IF ~maker_order_bytes.ok \/ ~taker_order_bytes.ok THEN Panicked
        ELSE IF ~base.some \/ ~quote.some THEN Panicked
        ELSE LET orders_bytes == OrdersBytes(maker_order_bytes.bytes,
                                             taker_order_bytes.bytes)
             IN  [ok |-> TRUE, err |-> "",
                  bytes |-> <<ORDER_MATCHING_TX_TYPE>>
                            \o BeBytes(om.account_id, 4)
                            \o BeBytes(om.sub_account_id, 1)
                            \o RescueHashOrders(orders_bytes)
                            \o BeBytes(AsU16(om.fee_token), 2)
                            \o PackFeeAmount(om.fee)
                            \o base.bytes
                            \o quote.bytes,
                  block |-> orders_bytes]

\* the orders matched: the scenario's order, one with the other side, one
\* whose slot id is wider than its field, one signed, one with a price of
\* 16 bytes
MatchingOrders ==
    { GoodOrder,
      [GoodOrder EXCEPT !.is_sell = 1],
      [GoodOrder EXCEPT !.slot_id = 65536 + 5],
      [GoodOrder EXCEPT !.signature = SomeSignature],
      [GoodOrder EXCEPT !.price = [i \in 1..16 |-> 1]] }

\* the caps, as the big-endian bytes of the number: 0, 11 (not packable),
\* 2^128 - 1 and 2^128
Caps == { <<0>>, <<11>>, [i \in 1..16 |-> 255], <<1>> \o Zeros(16) }

MatchingInputs ==
    {OrderMatchingNew(1, 0, taker, maker, 0, 1, base, quote) :
        taker \in MatchingOrders, maker \in MatchingOrders,
        base \in Caps, quote \in Caps}

OrderMatchingGetBytesCall(om) ==
    /\ call' = [op |-> "OrderMatching::get_bytes", om |-> om]
    /\ ret' = OrderMatchingGetBytes(om)
    /\ UNCHANGED <<input, params, signed, again>>

InitMatching ==
    /\ input \in MatchingInputs
    /\ params = [t \in Threads |-> NoParams]
    /\ call = [op |-> "none"]
    /\ ret = [ok |-> TRUE]
    /\ signed = NoSig
    /\ again = FALSE

NextMatching == OrderMatchingGetBytesCall(input)

SpecMatching == InitMatching /\ [][NextMatching]_vars

\* maker.get_bytes() followed by taker.get_bytes(), for the matching called with
CalledConcat ==
    OrderGetBytes(call.om.maker).bytes \o OrderGetBytes(call.om.taker).bytes

\* the first n bytes of a string, zeros standing in for the bytes it lacks
FirstBytes(bytes, n) ==
    LET len == Len(bytes) IN [i \in 1..n |-> IF i <= len THEN bytes[i] ELSE 0]

\* whether part occurs in bytes as a contiguous run
Occurs(part, bytes) ==
    \E k \in 0..(Len(bytes) - Len(part)) : Slice(bytes, k, k + Len(part)) = part

\* C13: the block OrderMatching::get_bytes hashes is ORDERS_BYTES long and is
\* maker.get_bytes() followed by taker.get_bytes(), zero-padded or cut at the
\* end; the encoding holds the hash of that block and not the bytes of the
\* orders; matchings that differ only in orders whose concatenated bytes
\* agree on the first ORDERS_BYTES bytes have the same encoding.
C13_OrderPairCommitment ==
    (call.op = "OrderMatching::get_bytes" /\ ret.ok)
        => /\ Len(ret.block) = ORDERS_BYTES
           /\ ret.block = FirstBytes(CalledConcat, ORDERS_BYTES)
           /\ Slice(ret.bytes, 6, 6 + ORDERS_HASH_BYTES) = RescueHashOrders(ret.block)
           /\ ~Occurs(OrderGetBytes(call.om.maker).bytes, ret.bytes)
           /\ ~Occurs(OrderGetBytes(call.om.taker).bytes, ret.bytes)
           /\ \A maker \in MatchingOrders, taker \in MatchingOrders :
                 LET other == OrderMatchingGetBytes(
                                  [call.om EXCEPT !.maker = maker, !.taker = taker])
                     bytes == OrderGetBytes(maker).bytes \o OrderGetBytes(taker).bytes
                 IN  (other.ok /\ FirstBytes(bytes, ORDERS_BYTES)
                                      = FirstBytes(CalledConcat, ORDERS_BYTES))
                         => other.bytes = ret.bytes

\* C13 witness: a matching whose maker and taker have different bytes was
\* encoded, and so would be one whose maker differs from it only in the bits
\* of the slot id that are not written
C13_Witness ==
    /\ call.op = "OrderMatching::get_bytes"
    /\ ret.ok
    /\ call.om.maker = GoodOrder
    /\ call.om.taker.is_sell = 1
    /\ ret.block[ORDERS_BYTES] = 0
    /\ OrderMatchingGetBytes([call.om EXCEPT !.maker.slot_id = 65536 + 5]).bytes
           = ret.bytes

\* the big-endian bytes of a number, filled with zeros at the front to 16 bytes
Be16(amount) == Zeros(16 - Len(amount)) \o amount

\* C14 as stated: OrderMatching::get_bytes gives bytes for every
\* OrderMatching, and their last 32 bytes are expect_base_amount and
\* expect_quote_amount as 16-byte big-endian integers, whole and unpacked.
C14_UnpackedCaps ==
    call.op = "OrderMatching::get_bytes"
        => /\ ret.ok
           /\ Slice(ret.bytes, Len(ret.bytes) - 32, Len(ret.bytes) - 16)
                  = Be16(call.om.expect_base_amount)
           /\ Slice(ret.bytes, Len(ret.bytes) - 16, Len(ret.bytes))
                  = Be16(call.om.expect_quote_amount)

-----------------------------------------------------------------------------
(* Signing: Order::sign, OrderMatching::sign, create_signed_change_pubkey *)

\* ZkLinkSignature::verify_musig(msg)
ZkLinkSignatureVerifyMusig(signature, msg) ==
    LET out == VerifyMusig(msg, signature)
    IN  [ok |-> out.ok, value |-> out.value]

\* a sign that leaves a signature already set in place
OrderSignKeepFirst(order, signer) ==
    LET bytes == OrderGetBytes(order) IN
    IF ~bytes.ok THEN [ok |-> FALSE, order |-> order]
    ELSE IF order.signature # DefaultSignature THEN [ok |-> TRUE, order |-> order]
    ELSE [ok |-> TRUE,
          order |-> [order EXCEPT !.signature =
                         ZkLinkSignerSignMusig(signer, bytes.bytes)]]

\* Order::sign: the order afterwards; a panic in get_bytes leaves it as it was
OrderSign(order, signer) ==
    LET bytes == OrderGetBytes(order) IN
    IF ~bytes.ok THEN [ok |-> FALSE, order |-> order]
    ELSE [ok |-> TRUE,
          order |-> [order EXCEPT !.signature =
                         ZkLinkSignerSignMusig(signer, bytes.bytes)]]

\* OrderMatching::sign
OrderMatchingSign(om, signer) ==
    LET bytes == OrderMatchingGetBytes(om) IN
    IF ~bytes.ok THEN [ok |-> FALSE, om |-> om]
    ELSE [ok |-> TRUE,
          om |-> [om EXCEPT !.signature = ZkLinkSignerSignMusig(signer, bytes.bytes)]]

\* Order::is_signature_valid
OrderIsSignatureValid(order) ==
    LET bytes == OrderGetBytes(order) IN
    IF ~bytes.ok THEN [ok |-> FALSE, value |-> FALSE]
    ELSE ZkLinkSignatureVerifyMusig(order.signature, bytes.bytes)

\* OrderMatching::is_signature_valid
OrderMatchingIsSignatureValid(om) ==
    LET bytes == OrderMatchingGetBytes(om) IN
    IF ~bytes.ok THEN [ok |-> FALSE, value |-> FALSE]
    ELSE ZkLinkSignatureVerifyMusig(om.signature, bytes.bytes)

\* ChangePubKey::is_signature_valid
ChangePubKeyIsSignatureValid(tx) ==
    ZkLinkSignatureVerifyMusig(tx.signature, ChangePubKeyGetBytes(tx))

\* no signer has signed the transaction yet
NoSigner == -1

\* the signers that sign: the nonzero keys
Signers == 1..MaxKey

\* the transactions the caller holds: an order, a matching of it, and the
\* ChangePubKey last returned by create_signed_change_pubkey (none at first)
NoneReturned == [returned |-> FALSE]

OrderSignCall(signer) ==
    LET out == OrderSign(signed.order, signer) IN
    /\ call' = [op |-> "Order::sign", signer |-> signer,
                before |-> signed.order.signature]
    /\ ret' = [ok |-> out.ok]
    /\ signed' = [signed EXCEPT !.order = out.order]
    /\ again' = IF out.ok THEN [again EXCEPT !.order = signer] ELSE again
    /\ UNCHANGED <<input, params>>

OrderMatchingSignCall(signer) ==
    LET out == OrderMatchingSign(signed.matching, signer) IN
    /\ call' = [op |-> "OrderMatching::sign", signer |-> signer,
                before |-> signed.matching.signature]
    /\ ret' = [ok |-> out.ok]
    /\ signed' = [signed EXCEPT !.matching = out.om]
    /\ again' = IF out.ok THEN [again EXCEPT !.matching = signer] ELSE again
    /\ UNCHANGED <<input, params>>

\* create_signed_change_pubkey(signer, tx, eth_auth_data), the caller keeping
\* the transaction that is returned
SignedChangePubkeyCall(signer, tx, eth_auth_data) ==
    LET out == CreateSignedChangePubkey(signer, tx, eth_auth_data) IN
    /\ call' = [op |-> "create_signed_change_pubkey", signer |-> signer,
                before |-> tx.signature]
    /\ ret' = [ok |-> out.ok]
    /\ signed' = [signed EXCEPT !.change_pubkey =
                      [returned |-> TRUE, tx |-> out.tx]]
    /\ again' = [again EXCEPT !.change_pubkey = signer]
    /\ UNCHANGED <<input, params>>

OrderIsSignatureValidCall ==
    /\ call' = [op |-> "Order::is_signature_valid", signer |-> NoSigner,
                before |-> signed.order.signature]
    /\ ret' = OrderIsSignatureValid(signed.order)
    /\ UNCHANGED <<input, params, signed, again>>

OrderMatchingIsSignatureValidCall ==
    /\ call' = [op |-> "OrderMatching::is_signature_valid", signer |-> NoSigner,
                before |-> signed.matching.signature]
    /\ ret' = OrderMatchingIsSignatureValid(signed.matching)
    /\ UNCHANGED <<input, params, signed, again>>

\* the ChangePubKeys at hand: the caller's, and the one returned last
ChangePubKeysHeld ==
    {input} \cup (IF signed.change_pubkey.returned
                  THEN {signed.change_pubkey.tx} ELSE {})

\* the auth payloads attached on signing
SigningAuthDatas == {OnChainAuth, EthECDSAAuth(9)}

\* the orders signed: the scenario's order, and one with a price of 16 bytes
SigningOrders == {GoodOrder, [GoodOrder EXCEPT !.price = [i \in 1..16 |-> 1]]}

\* input: the ChangePubKey the caller built; signed: the transactions held;
\* again: the signer that signed each of them last
InitSign ==
    /\ input \in {tx \in NewChangePubKeys : tx.new_pk_hash = PublicKeyHash(1)}
    /\ params = [t \in Threads |-> NoParams]
    /\ call = [op |-> "none", signer |-> NoSigner, before |-> <<>>]
    /\ ret = [ok |-> TRUE]
    /\ \E order \in SigningOrders :
          signed = [order |-> order,
                    matching |-> OrderMatchingNew(1, 0, [GoodOrder EXCEPT !.is_sell = 1],
                                                  order, 0, 1, <<0>>, <<11>>),
                    change_pubkey |-> NoneReturned]
    /\ again = [order |-> NoSigner, matching |-> NoSigner, change_pubkey |-> NoSigner]

NextSign ==
    \/ \E signer \in Signers : OrderSignCall(signer)
    \/ \E signer \in Signers : OrderMatchingSignCall(signer)
    \/ \E signer \in Signers, ad \in SigningAuthDatas, tx \in ChangePubKeysHeld :
          SignedChangePubkeyCall(signer, tx, ad)
    \/ OrderIsSignatureValidCall
    \/ OrderMatchingIsSignatureValidCall

SpecSign == InitSign /\ [][NextSign]_vars

Valid == [ok |-> TRUE, value |-> TRUE]

\* each transaction held has the default signature until a signer signs it,
\* and from then on the signature of its get_bytes() under the signer that
\* signed it last, which is_signature_valid accepts
SignatureIsCurrent ==
    /\ input.signature = DefaultSignature
    /\ IF again.order = NoSigner THEN signed.order.signature = DefaultSignature
       ELSE /\ signed.order.signature
                  = ZkLinkSignerSignMusig(again.order, OrderGetBytes(signed.order).bytes)
            /\ OrderIsSignatureValid(signed.order) = Valid
    /\ IF again.matching = NoSigner THEN signed.matching.signature = DefaultSignature
       ELSE /\ signed.matching.signature
                  = ZkLinkSignerSignMusig(again.matching,
                                          OrderMatchingGetBytes(signed.matching).bytes)
            /\ OrderMatchingIsSignatureValid(signed.matching) = Valid
    /\ IF again.change_pubkey = NoSigner THEN ~signed.change_pubkey.returned
       ELSE /\ signed.change_pubkey.tx.signature
                  = ZkLinkSignerSignMusig(again.change_pubkey,
                                          ChangePubKeyGetBytes(signed.change_pubkey.tx))
            /\ ChangePubKeyIsSignatureValid(signed.change_pubkey.tx) = Valid
    /\ (call.op = "Order::is_signature_valid" /\ again.order # NoSigner) => ret = Valid
    /\ (call.op = "OrderMatching::is_signature_valid" /\ again.matching # NoSigner)
           => ret = Valid

\* a sign changes nothing but the signature; signing again with the signer
\* that signed last changes nothing at all; create_signed_change_pubkey
\* leaves the caller's transaction as it was
SignStep ==
    /\ signed'.order = [signed.order EXCEPT !.signature = signed'.order.signature]
    /\ signed'.matching = [signed.matching EXCEPT !.signature = signed'.matching.signature]
    /\ (call'.op = "Order::sign" /\ call'.signer = again.order)
           => signed'.order = signed.order
    /\ (call'.op = "OrderMatching::sign" /\ call'.signer = again.matching)
           => signed'.matching = signed.matching
    /\ input' = input

\* C15: a transaction starts with the default signature; after any sequence
\* of successful signs its signature is that of its current get_bytes() under
\* the signer used last, and is_signature_valid() is true; signing again with
\* the same signer leaves the signature as it is; create_signed_change_pubkey
\* leaves the caller's transaction unmodified.
C15_SigningLifecycle ==
    []SignatureIsCurrent /\ [][SignStep]_vars

\* C15 witness: an order that held one signer's signature was signed by
\* another signer, and holds a different signature now
C15_Witness ==
    /\ call.op = "Order::sign"
    /\ ret.ok
    /\ call.before # DefaultSignature
    /\ call.before # signed.order.signature
    /\ again.matching # NoSigner
    /\ signed.change_pubkey.returned

====
